---- MODULE Spec2Model ----
(***************************************************************************)
(* The mock price store (services/prices.mock.ts) and the dashboard page   *)
(* that reads and refreshes it (DashboardPage).                            *)
(*                                                                         *)
(* Units.  The store rounds every number to two decimals, so a price is    *)
(* held as an integer number of hundredths of a currency unit and a        *)
(* change24hPct as an integer number of hundredths of a percentage point.  *)
(* Values before rounding are exact rationals (the model has no floating   *)
(* point error).                                                           *)
(***************************************************************************)
EXTENDS Integers, Sequences, FiniteSets, TLC

VARIABLES
    state,          \* prices.mock.ts: the module-scoped PriceMap
    prices,         \* DashboardPage: useState<PriceMap>({})
    loadingPrices,  \* DashboardPage: useState(false)
    mounted,        \* the mount effect (useEffect(..., [])) has run
    calls,          \* handleRefreshPrices invocations in flight, oldest first
    invoked,        \* number of handleRefreshPrices invocations so far
    version,        \* number of times refreshMockPrices has stored a new map
    snapshots,      \* the last two results an outside caller got from getMockPrices
    holdings,       \* DashboardPage: the holdings list
    rendered        \* the rows and aggregates of the last evaluation of the memos

vars == <<state, prices, loadingPrices, mounted, calls, invoked, version,
          snapshots, holdings, rendered>>

(***************************************************************************)
(* Bounds of the model.                                                    *)
(***************************************************************************)
\* refresh invocations explored from the start of the session
MaxRefresh == 3
\* Math.random() is sampled on a grid of RandDen points per unit; the model
\* draws the two ends of the grid, 0 and (RandDen - 1) / RandDen
RandDen == 256

RandNums == {0, RandDen - 1}
\* the two Math.random() results of one loop iteration (the price drift, then
\* the 24h-change delta): sampled together, both at the low end of the grid
\* or both at the high end, and independently for each symbol
DrawPairs == {<<n, n>> : n \in RandNums}

(***************************************************************************)
(* prices.mock.ts                                                          *)
(***************************************************************************)
PricePoint(sym, price, change) ==
    [symbol |-> sym, price |-> price, change24hPct |-> change]

\* let state: PriceMap = { BTC: ..., ETH: ..., SOL: ..., XRP: ... }
SeedState ==
    ("BTC" :> PricePoint("BTC", 118500000, 142)) @@
    ("ETH" :> PricePoint("ETH", 6245000, -85)) @@
    ("SOL" :> PricePoint("SOL", 325000, 312)) @@
    ("XRP" :> PricePoint("XRP", 1180, 24))

\* the PriceMap {}
EmptyMap == [s \in {} |-> PricePoint(s, 0, 0)]

\* randBetween(-1.2, 1.2): the bound, in tenths of a percent
PriceDrift == 12
\* randBetween(-0.6, 0.6): the bound, in tenths of a percentage point
ChangeDrift == 6

\* Math.random() * (max - min) + min, for Math.random() = n / RandDen and
\* min, max in tenths: the result is in units of 1 / (10 * RandDen)
randBetween(min, max, n) == n * (max - min) + min * RandDen

\* A rational before rounding is held as whole + num / den (den > 0), which
\* keeps every intermediate product inside TLC's 32-bit integers.
Mixed(whole, num, den) == [w |-> whole, n |-> num, d |-> den]

\* round2 with Math.floor in place of Math.round
round2Floor(x) == x.w + (x.n \div x.d)

\* Math.round(n * 100) / 100 on a value already in hundredths:
\* Math.round rounds to the nearest integer, halves towards +infinity
round2(x) == x.w + ((2 * x.n + x.d) \div (2 * x.d))

\* a walk whose drift is an amount added to the price, current.price + driftPct
nextPriceOfAdditive(price, drift) == Mixed(price, 10 * drift, RandDen)

\* current.price * (1 + driftPct / 100), driftPct = drift / (10 * RandDen)
nextPriceOf(price, drift) ==
    LET W == 1000 * RandDen
    IN  Mixed(price + (price \div W) * drift, (price % W) * drift, W)

\* current.change24hPct + randBetween(-0.6, 0.6), delta in 1 / (10 * RandDen)
nextChangeOf(change, delta) == Mixed(change, 10 * delta, RandDen)

\* the body of the for loop: next[sym] = { symbol, price, change24hPct }
NextPoint(sym, current, n1, n2) ==
    PricePoint(sym,
               round2(nextPriceOf(current.price,
                                  randBetween(-PriceDrift, PriceDrift, n1))),
               round2(nextChangeOf(current.change24hPct,
                                   randBetween(-ChangeDrift, ChangeDrift, n2))))

\* the loop stopping one key short: XRP, the last key, is left out of `next`
WalkSkipsLast(st, draws) ==
    [sym \in DOMAIN st \ {"XRP"} |->
        NextPoint(sym, st[sym], draws[sym][1], draws[sym][2])]

\* for (const sym of Object.keys(state)) { ... }: the map `next`
Walk(st, draws) ==
    [sym \in DOMAIN st |-> NextPoint(sym, st[sym], draws[sym][1], draws[sym][2])]

\* getMockPrices(): { ...state }
getMockPrices == state

(***************************************************************************)
(* JavaScript numbers of the valuation: an exact rational n / d in lowest  *)
(* terms (d > 0), +Infinity or -Infinity, or NaN.  The sign of zero is not *)
(* modelled: the one divisor that can be zero, 1 + change24hPct / 100, is  *)
(* then +0.                                                                *)
(***************************************************************************)
RECURSIVE GCD(_, _)
GCD(a, b) == IF b = 0 THEN a ELSE GCD(b, a % b)

Abs(a) == IF a < 0 THEN -a ELSE a

NaN == [k |-> "nan"]
Inf(s) == [k |-> "inf", s |-> s]

Fin(n, d) ==
    LET g == GCD(Abs(n), d)
    IN  [k |-> "fin", n |-> n \div g, d |-> d \div g]

Zero == Fin(0, 1)

\* the sign of a number other than NaN: -1, 0 or 1
NSign(x) ==
    IF x.k = "inf" THEN x.s
    ELSE IF x.n > 0 THEN 1 ELSE IF x.n < 0 THEN -1 ELSE 0

\* x + y
NAdd(x, y) ==
    IF x.k = "nan" \/ y.k = "nan" THEN NaN
    ELSE IF x.k = "inf" /\ y.k = "inf" THEN (IF x.s = y.s THEN x ELSE NaN)
    ELSE IF x.k = "inf" THEN x
    ELSE IF y.k = "inf" THEN y
    ELSE LET g == GCD(x.d, y.d)
         IN  Fin(x.n * (y.d \div g) + y.n * (x.d \div g), (x.d \div g) * y.d)

\* -x
NNeg(x) ==
    IF x.k = "nan" THEN NaN
    ELSE IF x.k = "inf" THEN Inf(-x.s)
    ELSE Fin(-x.n, x.d)

\* x - y
NSub(x, y) == NAdd(x, NNeg(y))

\* x * y
NMul(x, y) ==
    IF x.k = "nan" \/ y.k = "nan" THEN NaN
    ELSE IF x.k = "inf" \/ y.k = "inf"
         THEN (IF NSign(x) = 0 \/ NSign(y) = 0 THEN NaN
               ELSE Inf(NSign(x) * NSign(y)))
    ELSE LET g1 == GCD(Abs(x.n), y.d)
             g2 == GCD(Abs(y.n), x.d)
         IN  Fin((x.n \div g1) * (y.n \div g2), (x.d \div g2) * (y.d \div g1))

\* x / y
NDiv(x, y) ==
    IF x.k = "nan" \/ y.k = "nan" THEN NaN
    ELSE IF x.k = "inf"
         THEN (IF y.k = "inf" THEN NaN
               ELSE Inf(IF NSign(y) < 0 THEN -x.s ELSE x.s))
    ELSE IF y.k = "inf" THEN Zero
    ELSE IF y.n = 0 THEN (IF x.n = 0 THEN NaN ELSE Inf(NSign(x)))
    ELSE NMul(x, IF y.n > 0 THEN Fin(y.d, y.n) ELSE Fin(-y.d, -y.n))

\* x <= 0 (false for NaN)
NLeqZero(x) == x.k # "nan" /\ NSign(x) <= 0

\* x > 0 (false for NaN)
NGtZero(x) == x.k # "nan" /\ NSign(x) > 0

\* the number a PricePoint field holds, from its hundredths
Hundredths(i) == Fin(i, 100)

(***************************************************************************)
(* DashboardPage                                                           *)
(***************************************************************************)
Holding(id, sym, name, amount) ==
    [id |-> id, symbol |-> sym, name |-> name, amount |-> amount]

\* const holdings: Holding[] = useMemo(() => [ ... ], [])
Holdings ==
    << Holding("btc", "BTC", "Bitcoin", Fin(523, 10000)),
       Holding("eth", "ETH", "Ethereum", Fin(84, 100)),
       Holding("sol", "SOL", "Solana", Fin(124, 10)),
       Holding("xrp", "XRP", "XRP", Fin(580, 1)) >>

\* const priceNow = p?.price ?? 0, for p = prices[h.symbol]
priceNowOf(h, pm) ==
    IF h.symbol \in DOMAIN pm THEN Hundredths(pm[h.symbol].price) ELSE Zero

\* const change24hPct = p?.change24hPct ?? 0
change24hPctOf(h, pm) ==
    IF h.symbol \in DOMAIN pm THEN Hundredths(pm[h.symbol].change24hPct) ELSE Zero

\* priceNow / (1 + change24hPct / 100)
priceYesterdayOf(priceNow, change24hPct) ==
    NDiv(priceNow, NAdd(Fin(1, 1), NDiv(change24hPct, Fin(100, 1))))

\* one element of rows: holdings.map((h) => { ... })
RowOf(h, pm) ==
    LET priceNow == priceNowOf(h, pm)
        change24hPct == change24hPctOf(h, pm)
        priceYesterday == priceYesterdayOf(priceNow, change24hPct)
        valueNow == NMul(h.amount, priceNow)
        valueYesterday == NMul(h.amount, priceYesterday)
        valueChange == NSub(valueNow, valueYesterday)
    IN  [id |-> h.id, symbol |-> h.symbol, name |-> h.name, amount |-> h.amount,
         priceNow |-> priceNow, change24hPct |-> change24hPct,
         valueNow |-> valueNow, valueChange |-> valueChange]

\* const rows = useMemo(() => holdings.map(...), [holdings, prices])
rows(hs, pm) == [i \in 1..Len(hs) |-> RowOf(hs[i], pm)]

\* reduce((sum, r) => sum + f(r), 0), left to right, over the terms f(r)
RECURSIVE ReduceSum(_, _)
ReduceSum(terms, sum) ==
    IF terms = <<>> THEN sum
    ELSE ReduceSum(Tail(terms), NAdd(sum, Head(terms)))

\* rows.reduce((sum, r) => sum + r.valueNow, 0)
totalBalance(rs) ==
    ReduceSum([i \in 1..Len(rs) |-> rs[i].valueNow], Zero)

\* rows.reduce((sum, r) => sum + r.valueChange, 0)
dayChangeAmount(rs) ==
    ReduceSum([i \in 1..Len(rs) |-> rs[i].valueChange], Zero)

\* the reduce of dayChangePct: the sum of r.amount * priceYesterday
yesterdayOf(rs) ==
    ReduceSum([i \in 1..Len(rs) |->
                  NMul(rs[i].amount,
                       priceYesterdayOf(rs[i].priceNow, rs[i].change24hPct))],
              Zero)

\* dayChangePct with the guard written yesterday < 0
dayChangePctStrict(rs, total) ==
    LET yesterday == yesterdayOf(rs)
    IN  IF yesterday.k # "nan" /\ NSign(yesterday) < 0 THEN Zero
        ELSE NMul(NDiv(NSub(total, yesterday), yesterday), Fin(100, 1))

\* if (yesterday <= 0) return 0;
\* return ((totalBalance - yesterday) / yesterday) * 100
dayChangePct(rs, total) ==
    LET yesterday == yesterdayOf(rs)
    IN  IF NLeqZero(yesterday) THEN Zero
        ELSE NMul(NDiv(NSub(total, yesterday), yesterday), Fin(100, 1))

\* nothing has been evaluated yet
NotRendered == [rows |-> <<>>, evaluated |-> FALSE]

\* one evaluation of the memos rows, totalBalance, dayChangeAmount, dayChangePct
Evaluate(hs, pm) ==
    LET rs == rows(hs, pm)
        total == totalBalance(rs)
    IN  [rows |-> rs, evaluated |-> TRUE, totalBalance |-> total,
         dayChangeAmount |-> dayChangeAmount(rs),
         dayChangePct |-> dayChangePct(rs, total)]

\* x < y (false when either is NaN)
NLess(x, y) ==
    LET diff == NSub(x, y)
    IN  diff.k # "nan" /\ NSign(diff) < 0

\* Math.min(x, y) and Math.max(x, y): NaN when either argument is NaN
MathMin(x, y) ==
    IF x.k = "nan" \/ y.k = "nan" THEN NaN
    ELSE IF NLess(y, x) THEN y ELSE x

MathMax(x, y) ==
    IF x.k = "nan" \/ y.k = "nan" THEN NaN
    ELSE IF NLess(x, y) THEN y ELSE x

\* Math.max(min, Math.min(max, n))
clamp(n, min, max) == MathMax(min, MathMin(max, n))

\* the limits of clamp(dayChangePct, -99, 999)
ClampMin == -99
ClampMax == 999

\* the number the day-change line hands to formatPct, for an evaluation r
dayChangeShown(r) == clamp(r.dayChangePct, Fin(ClampMin, 1), Fin(ClampMax, 1))

Buttons == {"refresh-prices", "cp-mini-refresh"}

\* buttons without the disabled attribute
disabledNever(b) == FALSE

\* disabled={loadingPrices} on both buttons
disabled(b) == loadingPrices

\* an invocation of handleRefreshPrices: suspended at its await ("await"),
\* resumed with the value `next` ("setPrices"), or in its finally block
\* ("finally"), which it enters with threw = TRUE when the await threw
Call(pc, next, threw) == [pc |-> pc, next |-> next, threw |-> threw]

\* no continuation of an async function is pending: the microtask queue is
\* empty, so the event loop can run a timer or dispatch an event
Quiescent == \A i \in 1..Len(calls) : calls[i].pc = "await"

Init ==
    /\ state = SeedState
    /\ prices = EmptyMap
    /\ loadingPrices = FALSE
    /\ mounted = FALSE
    /\ calls = <<>>
    /\ invoked = 0
    /\ version = 0
    /\ snapshots = <<>>
    /\ holdings = Holdings
    /\ rendered = NotRendered

\* a mount effect that advances the store instead of only reading it
MountAdvancesStore ==
    /\ ~mounted
    /\ mounted' = TRUE
    /\ state' = Walk(state, [s \in DOMAIN state |-> <<0, 0>>])
    /\ prices' = state'
    /\ UNCHANGED <<loadingPrices, calls, invoked, version, snapshots,
                   holdings, rendered>>

\* useEffect(() => { setPrices(getMockPrices()); }, [])
Mount ==
    /\ ~mounted
    /\ mounted' = TRUE
    /\ prices' = getMockPrices
    /\ UNCHANGED <<state, loadingPrices, calls, invoked, version, snapshots,
                   holdings, rendered>>

\* handleRefreshPrices without its setLoadingPrices(true)
handleRefreshPricesNoBusy ==
    /\ calls' = Append(calls, Call("await", EmptyMap, FALSE))
    /\ invoked' = invoked + 1
    /\ UNCHANGED <<state, prices, loadingPrices, mounted, version, snapshots,
                   holdings, rendered>>

\* handleRefreshPrices emptying the table while it loads: setPrices({})
handleRefreshPricesClears ==
    /\ loadingPrices' = TRUE
    /\ prices' = EmptyMap
    /\ calls' = Append(calls, Call("await", EmptyMap, FALSE))
    /\ invoked' = invoked + 1
    /\ UNCHANGED <<state, mounted, version, snapshots, holdings, rendered>>

\* handleRefreshPrices up to its await: setLoadingPrices(true), then the call
\* of refreshMockPrices, which starts its 200 ms timer and suspends
handleRefreshPrices ==
    /\ loadingPrices' = TRUE
    /\ calls' = Append(calls, Call("await", EmptyMap, FALSE))
    /\ invoked' = invoked + 1
    /\ UNCHANGED <<state, prices, mounted, version, snapshots, holdings, rendered>>

\* a click on one of the two buttons: onClick={handleRefreshPrices}, which a
\* disabled button does not dispatch
ClickRefresh ==
    \E b \in Buttons :
        /\ mounted
        /\ Quiescent
        /\ ~disabled(b)
        /\ invoked < MaxRefresh
        /\ handleRefreshPrices

\* a price source that shares one walk step between the invocations in flight
refreshMockPricesShared ==
    /\ Quiescent
    /\ calls # <<>>
    /\ \E draws \in [DOMAIN state -> DrawPairs] :
          /\ state' = Walk(state, draws)
          /\ calls' = [i \in 1..Len(calls) |-> Call("setPrices", state', FALSE)]
    /\ version' = version + 1
    /\ UNCHANGED <<prices, loadingPrices, mounted, invoked, snapshots,
                   holdings, rendered>>

\* the oldest pending 200 ms timer fires and refreshMockPrices runs to its
\* return: the random walk over the keys, state = next, return { ...state }
refreshMockPrices ==
    /\ Quiescent
    /\ calls # <<>>
    /\ \E draws \in [DOMAIN state -> DrawPairs] :
          /\ state' = Walk(state, draws)
          /\ calls' = [calls EXCEPT ![1] = Call("setPrices", state', FALSE)]
    /\ version' = version + 1
    /\ UNCHANGED <<prices, loadingPrices, mounted, invoked, snapshots,
                   holdings, rendered>>

\* the handler dropping the map refreshMockPrices resolved with
SetPricesSkipped ==
    /\ calls # <<>>
    /\ calls[1].pc = "setPrices"
    /\ prices' = prices
    /\ calls' = [calls EXCEPT ![1].pc = "finally"]
    /\ UNCHANGED <<state, loadingPrices, mounted, invoked, version, snapshots,
                   holdings, rendered>>

\* const next = await refreshMockPrices(); setPrices(next);
SetPrices ==
    /\ calls # <<>>
    /\ calls[1].pc = "setPrices"
    /\ prices' = calls[1].next
    /\ calls' = [calls EXCEPT ![1].pc = "finally"]
    /\ UNCHANGED <<state, loadingPrices, mounted, invoked, version, snapshots,
                   holdings, rendered>>

\* the handler ending without setLoadingPrices(false)
FinallyKeepsBusy ==
    /\ calls # <<>>
    /\ calls[1].pc = "finally"
    /\ calls' = Tail(calls)
    /\ UNCHANGED <<state, prices, loadingPrices, mounted, invoked, version,
                   snapshots, holdings, rendered>>

\* finally { setLoadingPrices(false); }
Finally ==
    /\ calls # <<>>
    /\ calls[1].pc = "finally"
    /\ loadingPrices' = FALSE
    /\ calls' = Tail(calls)
    /\ UNCHANGED <<state, prices, mounted, invoked, version, snapshots,
                   holdings, rendered>>

\* the handler without a finally block (setLoadingPrices(false) as the last
\* statement of the try block): a rejection ends it with the flag still set
AwaitRejectsNoFinally ==
    /\ Quiescent
    /\ calls # <<>>
    /\ calls' = Tail(calls)
    /\ UNCHANGED <<state, prices, loadingPrices, mounted, invoked, version,
                   snapshots, holdings, rendered>>

\* try { await ...; setPrices(next) } finally { ... } when the awaited promise
\* rejects: control leaves the try block at the await, skipping setPrices.
\* refreshMockPrices itself never rejects, so this step is no part of Next.
AwaitRejects ==
    /\ Quiescent
    /\ calls # <<>>
    /\ calls' = [calls EXCEPT ![1] = Call("finally", EmptyMap, TRUE)]
    /\ UNCHANGED <<state, prices, loadingPrices, mounted, invoked, version,
                   snapshots, holdings, rendered>>

\* an outside caller of the exported getMockPrices(): its result, kept with
\* the result of the call before it
GetSnapshot ==
    /\ Quiescent
    /\ snapshots' =
          (IF snapshots = <<>> THEN <<>> ELSE <<snapshots[Len(snapshots)]>>)
          \o << [map |-> getMockPrices, version |-> version] >>
    /\ UNCHANGED <<state, prices, loadingPrices, mounted, calls, invoked,
                   version, holdings, rendered>>

Next ==
    \/ Mount
    \/ ClickRefresh
    \/ refreshMockPrices
    \/ SetPrices
    \/ Finally

Spec == Init /\ [][Next]_vars

\* the page, and an outside caller reading the store
NextObserved == Next \/ GetSnapshot

SpecObserved == Init /\ [][NextObserved]_vars

\* the page behind a price source whose advance can fail
NextFail == Next \/ AwaitRejects

SpecFail == Init /\ [][NextFail]_vars

\* handleRefreshPrices is invoked while loadingPrices is true, past the
\* disabled attribute of the buttons (the handler itself does not test
\* loadingPrices)
BypassRefresh ==
    /\ mounted
    /\ Quiescent
    /\ loadingPrices
    /\ invoked < MaxRefresh
    /\ handleRefreshPrices

\* the page when the disabled buttons do not stop an invocation
NextBypass == Next \/ BypassRefresh

SpecBypass == Init /\ [][NextBypass]_vars

\* the timer of a suspended refreshMockPrices fires, and the continuations of
\* the two async functions run once they are scheduled
FairSpec ==
    /\ Spec
    /\ WF_vars(refreshMockPrices)
    /\ WF_vars(SetPrices)
    /\ WF_vars(Finally)

(***************************************************************************)
(* The valuation as a function of its inputs: any holdings list up to      *)
(* MaxHoldings long (and the page's own list) against any small PriceMap,  *)
(* where the products stay inside TLC's integers.                          *)
(***************************************************************************)
MaxHoldings == 2

\* "ADA" is a symbol no PriceMap of ValPriceMaps has an entry for
ValHoldingSymbols == {"BTC", "ETH", "ADA"}
ValAmounts == {Fin(0, 1), Fin(1, 2), Fin(3, 1)}
ValMapSymbols == {"BTC", "ETH"}
\* prices 1.00 and 2.50
ValPrices == {100, 250}
\* 24h changes -200.00, -100.00, -50.00, 0.00 and 1.42
ValChanges == {-20000, -10000, -5000, 0, 142}

ValHoldingLists ==
    {Holdings} \cup
    UNION { { [i \in 1..n |-> Holding("h" \o ToString(i), f[i][1], f[i][1], f[i][2])] :
              f \in [1..n -> ValHoldingSymbols \X ValAmounts] } :
            n \in 0..MaxHoldings }

ValPriceMaps ==
    UNION { { [s \in D |-> PricePoint(s, f[s][1], f[s][2])] :
              f \in [D -> ValPrices \X ValChanges] } :
            D \in SUBSET ValMapSymbols }

InitVal ==
    /\ state = SeedState
    /\ prices \in ValPriceMaps
    /\ loadingPrices = FALSE
    /\ mounted = TRUE
    /\ calls = <<>>
    /\ invoked = 0
    /\ version = 0
    /\ snapshots = <<>>
    /\ holdings \in ValHoldingLists
    /\ rendered = NotRendered

\* a render: the memos are evaluated on the current holdings and prices.
\* Only SpecVal renders: with the seed's prices the exact fractions of the
\* valuation do not fit TLC's 32-bit integers.
Render ==
    /\ ~rendered.evaluated
    /\ rendered' = Evaluate(holdings, prices)
    /\ UNCHANGED <<state, prices, loadingPrices, mounted, calls, invoked,
                   version, snapshots, holdings>>

NextVal == Render

SpecVal == InitVal /\ [][NextVal]_vars

(***************************************************************************)
(* Long sessions: the user refreshes up to MaxSession times, one refresh   *)
(* after the other, and Math.random() returns the same values in every     *)
(* refresh, which takes the store far from the seed along a single walk.   *)
(***************************************************************************)
MaxSession == 320

\* a click on an enabled button, in a session of up to MaxSession refreshes
SessionClick ==
    \E b \in Buttons :
        /\ mounted
        /\ Quiescent
        /\ ~disabled(b)
        /\ invoked < MaxSession
        /\ handleRefreshPrices

\* the oldest pending timer fires and refreshMockPrices runs to its return
\* with the given draws of Math.random()
Advance(draws) ==
    /\ Quiescent
    /\ calls # <<>>
    /\ state' = Walk(state, draws)
    /\ calls' = [calls EXCEPT ![1] = Call("setPrices", state', FALSE)]
    /\ version' = version + 1
    /\ UNCHANGED <<prices, loadingPrices, mounted, invoked, snapshots,
                   holdings, rendered>>

\* every price draw is 0 (driftPct = -1.2, the largest fall of a price) and
\* every 24h-change draw is 1/2 (a step of 0 when RandDen is even)
FallingDraws == [s \in DOMAIN state |-> <<0, RandDen \div 2>>]

refreshMockPricesFalling == Advance(FallingDraws)

NextFalling ==
    \/ Mount
    \/ SessionClick
    \/ refreshMockPricesFalling
    \/ SetPrices
    \/ Finally

\* a session in which every price falls as fast as the walk allows
SpecFalling == Init /\ [][NextFalling]_vars

\* the Math.random() result that takes one hundredth off a 24h change
CentDraw ==
    CHOOSE n \in 0..(RandDen - 1) :
        round2(nextChangeOf(0, randBetween(-ChangeDrift, ChangeDrift, n))) = -1

\* where the session below takes the 24h change of a symbol: ETH's to
\* -100.00, the others' to 0.00
DriftTarget(sym) == IF sym = "ETH" THEN -10000 ELSE 0

\* the 24h-change draw of a symbol: 0 (a step of -0.60) while that does not
\* pass the target, then CentDraw (steps of -0.01) down to the target, then
\* 1/2 (a step of 0)
ChangeDrawTo(change, target) ==
    IF change - 10 * ChangeDrift >= target THEN 0
    ELSE IF change > target THEN CentDraw
    ELSE RandDen \div 2

\* every price draw is 1/2 (driftPct = 0 when RandDen is even)
DriftingDraws ==
    [s \in DOMAIN state |->
        <<RandDen \div 2, ChangeDrawTo(state[s].change24hPct, DriftTarget(s))>>]

refreshMockPricesDrifting == Advance(DriftingDraws)

\* the render after the last refresh of the session.  The earlier renders
\* are not evaluated: the exact fractions of their valuation do not fit
\* TLC's 32-bit integers.
RenderLast ==
    /\ invoked = MaxSession
    /\ calls = <<>>
    /\ ~loadingPrices
    /\ Render

NextDrifting ==
    \/ Mount
    \/ SessionClick
    \/ refreshMockPricesDrifting
    \/ SetPrices
    \/ Finally
    \/ RenderLast

\* a session in which the prices stay and ETH's 24h change falls to -100.00
SpecDrifting == Init /\ [][NextDrifting]_vars

(***************************************************************************)
(* The refresh states of the page                                          *)
(***************************************************************************)
Idle == calls = <<>> /\ ~loadingPrices
Refreshing == calls # <<>> /\ loadingPrices

(***************************************************************************)
(* C1: while a refresh is in progress the busy flag is true and both       *)
(* refresh buttons are disabled; the flag is false whenever no refresh is  *)
(* in progress, and it goes from true to false only in the step that       *)
(* completes the refresh in flight (its finally block), after which no     *)
(* refresh is left in progress.                                            *)
(***************************************************************************)
C1_BusyWhileRefreshing ==
    /\ [](calls # <<>> => loadingPrices /\ \A b \in Buttons : disabled(b))
    /\ [](calls = <<>> => ~loadingPrices /\ \A b \in Buttons : ~disabled(b))
    /\ [][(loadingPrices /\ ~loadingPrices')
            => /\ Len(calls) = 1
               /\ calls[1].pc = "finally"
               /\ calls' = <<>>]_vars

\* a refresh whose result has been applied and whose flag is still set
C1_Witness ==
    /\ calls # <<>>
    /\ calls[1].pc = "finally"
    /\ prices = calls[1].next
    /\ loadingPrices

(***************************************************************************)
(* C2: at most one refresh is in flight in every reachable state, and an   *)
(* invocation of handleRefreshPrices never starts while the busy flag is   *)
(* set.                                                                    *)
(***************************************************************************)
C2_Serialized ==
    /\ [](Len(calls) <= 1)
    /\ [][invoked' # invoked => ~loadingPrices /\ calls = <<>>]_vars

\* a second refresh in flight, started after the first one completed
C2_Witness == Len(calls) = 1 /\ invoked = 2 /\ version = 1

(***************************************************************************)
(* C3: every step of the walk keeps each symbol's price and 24h change     *)
(* near the values they were derived from.                                 *)
(***************************************************************************)
AbsDiff(a, b) == IF a < b THEN b - a ELSE a - b

\* new is within +-1.2% of old (prices in hundredths)
WithinDrift(old, new) == 1000 * AbsDiff(new, old) <= PriceDrift * old

\* new is within +-1.2% of old, give or take the half of 0.01 that the
\* rounding to two decimals can add
WithinDriftRounded(old, new) == 1000 * AbsDiff(new, old) <= PriceDrift * old + 500

\* new is within +-0.6 of old (changes in hundredths)
WithinChange(old, new) == AbsDiff(new, old) <= 10 * ChangeDrift

\* C3 as stated: for every advance and every symbol, the new price is within
\* +-1.2% of the price it was derived from, the new 24h change is within
\* +-0.6 of the old one, and both are multiples of 0.01
C3_Original ==
    [][state' # state =>
        \A s \in DOMAIN state :
            /\ WithinDrift(state[s].price, state'[s].price)
            /\ WithinChange(state[s].change24hPct, state'[s].change24hPct)
            /\ state'[s].price \in Int
            /\ state'[s].change24hPct \in Int]_vars

\* C3 as amended: for every advance and every symbol, the new price is within
\* 0.005 (the rounding to two decimals) of a value within +-1.2% of the price
\* it was derived from, the new 24h change is within +-0.6 of the old one, and
\* both are multiples of 0.01
C3_WalkBounded ==
    [][state' # state =>
        \A s \in DOMAIN state :
            /\ WithinDriftRounded(state[s].price, state'[s].price)
            /\ WithinChange(state[s].change24hPct, state'[s].change24hPct)
            /\ state'[s].price \in Int
            /\ state'[s].change24hPct \in Int]_vars

\* two advances took XRP from 11.80 to 11.66 and then to 11.52, which is more
\* than 1.2% below 11.66: 11.66 * 0.988 = 11.52008 rounds down
C3_Witness ==
    /\ version = 2
    /\ state["XRP"].price = 1152

(***************************************************************************)
(* C4: after any sequence of advances the store's keys are exactly BTC,    *)
(* ETH, SOL and XRP, and each entry's symbol field equals its key.         *)
(***************************************************************************)
C4_KeySetPreserved ==
    /\ DOMAIN state = {"BTC", "ETH", "SOL", "XRP"}
    /\ \A s \in DOMAIN state : state[s].symbol = s

\* the store after two advances that moved every price
C4_Witness ==
    /\ version >= 2
    /\ \A s \in DOMAIN state : state[s].price # SeedState[s].price

(***************************************************************************)
(* C5: when the awaited advance fails, the busy flag is still cleared and  *)
(* the view's prices keep their last value; when it succeeds, the view's   *)
(* prices become the map it returned while the busy flag is still set.     *)
(***************************************************************************)
C5_FinallyReleases ==
    /\ [](calls = <<>> => ~loadingPrices)
    /\ [][(calls # <<>> /\ calls[1].pc # "setPrices") => prices' = prices]_vars
    /\ [][(calls # <<>> /\ calls[1].threw)
            => /\ calls' = Tail(calls)
               /\ ~loadingPrices'
               /\ state' = state]_vars
    /\ [][(calls # <<>> /\ calls[1].pc = "setPrices")
            => /\ prices' = calls[1].next
               /\ loadingPrices']_vars
    /\ [](\A i \in 1..Len(calls) :
            (calls[i].pc = "finally" /\ ~calls[i].threw)
                => prices = calls[i].next /\ loadingPrices)

\* a refresh has failed and is over: the flag is cleared and the view still
\* shows the prices it had
C5_Witness ==
    /\ invoked = 1
    /\ version = 0
    /\ calls = <<>>
    /\ ~loadingPrices
    /\ prices = SeedState

(***************************************************************************)
(* C6: the page starts Idle, is always Idle or Refreshing, moves only from *)
(* Idle to Refreshing (an invocation starts) and from Refreshing to Idle   *)
(* (it completes), every refresh that starts leads back to Idle, and in    *)
(* Idle after the mount each of the four holdings has its row derived from *)
(* its entry of the store.                                                 *)
(***************************************************************************)
RowsDerived ==
    /\ Len(holdings) = 4
    /\ \A i \in 1..Len(holdings) :
          /\ holdings[i].symbol \in DOMAIN prices
          /\ priceNowOf(holdings[i], prices) =
                Hundredths(state[holdings[i].symbol].price)
          /\ change24hPctOf(holdings[i], prices) =
                Hundredths(state[holdings[i].symbol].change24hPct)

C6_RefreshReturnsToIdle ==
    /\ Idle
    /\ [](Idle \/ Refreshing)
    /\ [][(Idle /\ ~Idle') => (Refreshing' /\ invoked' = invoked + 1)]_vars
    /\ [][(Refreshing /\ ~Refreshing') => (Idle' /\ calls[1].pc = "finally")]_vars
    /\ (Refreshing ~> Idle)
    /\ []((Idle /\ mounted) => RowsDerived)

\* back in Idle after a refresh that moved the prices
C6_Witness ==
    /\ Idle
    /\ version = 1
    /\ prices = state
    /\ prices # SeedState

(***************************************************************************)
(* C7: the store changes only in the step in which refreshMockPrices       *)
(* stores its new map; getMockPrices and the mount effect leave it alone,  *)
(* and two getMockPrices calls with no advance between them return equal   *)
(* maps.                                                                   *)
(***************************************************************************)
C7_OnlyAdvanceMutates ==
    /\ [][state' # state
            => /\ calls # <<>>
               /\ calls[1].pc = "await"
               /\ calls'[1].pc = "setPrices"
               /\ version' = version + 1
               /\ snapshots' = snapshots
               /\ mounted' = mounted]_vars
    /\ [](Len(snapshots) = 2 /\ snapshots[1].version = snapshots[2].version
            => snapshots[1].map = snapshots[2].map)
    /\ [](\A i \in 1..Len(snapshots) :
            snapshots[i].version = version => snapshots[i].map = state)

\* two getMockPrices calls in a row, after an advance
C7_Witness ==
    /\ Len(snapshots) = 2
    /\ snapshots[1].version = snapshots[2].version
    /\ snapshots[2].version >= 1

(***************************************************************************)
(* C8: from the invocation of a refresh to the completion of its advance   *)
(* the view's prices do not change, and after the mount they change only   *)
(* in the step that applies the map a completed advance returned.          *)
(***************************************************************************)
C8_VisibleAfterCompletion ==
    /\ [][(calls # <<>> /\ calls[1].pc = "await") => prices' = prices]_vars
    /\ [][(mounted /\ prices' # prices)
            => /\ calls # <<>>
               /\ calls[1].pc = "setPrices"
               /\ prices' = calls[1].next
               /\ prices' = state]_vars
    /\ [](\A i \in 1..Len(calls) : calls[i].pc = "await" => prices = state)

\* the advance has completed and the view still shows the old prices
C8_Witness ==
    /\ calls # <<>>
    /\ calls[1].pc = "setPrices"
    /\ prices # calls[1].next
    /\ state = calls[1].next

(***************************************************************************)
(* C9: a holding whose symbol has no entry in the PriceMap gets a row with *)
(* priceNow, change24hPct, valueNow and valueChange all 0; with an empty   *)
(* PriceMap, totalBalance, dayChangeAmount and dayChangePct are all 0 for  *)
(* any holdings list.                                                      *)
(***************************************************************************)
C9_MissingPriceIsZero ==
    rendered.evaluated =>
        /\ Len(rendered.rows) = Len(holdings)
        /\ \A i \in 1..Len(holdings) :
              holdings[i].symbol \notin DOMAIN prices =>
                  /\ rendered.rows[i].priceNow = Zero
                  /\ rendered.rows[i].change24hPct = Zero
                  /\ rendered.rows[i].valueNow = Zero
                  /\ rendered.rows[i].valueChange = Zero
        /\ prices = EmptyMap =>
              /\ rendered.totalBalance = Zero
              /\ rendered.dayChangeAmount = Zero
              /\ rendered.dayChangePct = Zero

\* the page's own four holdings evaluated against the empty PriceMap, as in
\* the render before the mount effect
C9_Witness ==
    /\ rendered.evaluated
    /\ prices = EmptyMap
    /\ holdings = Holdings

(***************************************************************************)
(* C10: for every holdings list and PriceMap, totalBalance is the sum of   *)
(* amount * priceNow, dayChangeAmount is totalBalance minus the sum of     *)
(* amount * priceYesterday (the yesterday-total), and dayChangePct is      *)
(* dayChangeAmount / yesterday-total * 100 when the yesterday-total is     *)
(* > 0, with the sign of dayChangeAmount, and 0 when it is <= 0.           *)
(***************************************************************************)
\* the sum of amount * priceNow over the holdings
SumValueNow(hs, pm) ==
    ReduceSum([i \in 1..Len(hs) |-> NMul(hs[i].amount, priceNowOf(hs[i], pm))],
              Zero)

\* the sum of amount * priceYesterday over the holdings
SumValueYesterday(hs, pm) ==
    ReduceSum([i \in 1..Len(hs) |->
                  NMul(hs[i].amount,
                       priceYesterdayOf(priceNowOf(hs[i], pm),
                                        change24hPctOf(hs[i], pm)))],
              Zero)

C10_Aggregates ==
    rendered.evaluated =>
        LET total == SumValueNow(holdings, prices)
            yesterdayTotal == SumValueYesterday(holdings, prices)
        IN  /\ rendered.totalBalance = total
            /\ rendered.dayChangeAmount = NSub(total, yesterdayTotal)
            /\ NGtZero(yesterdayTotal) =>
                  /\ rendered.dayChangePct.k # "nan"
                  /\ rendered.dayChangePct =
                        NMul(NDiv(rendered.dayChangeAmount, yesterdayTotal),
                             Fin(100, 1))
                  /\ NSign(rendered.dayChangePct) = NSign(rendered.dayChangeAmount)
            /\ NLeqZero(yesterdayTotal) => rendered.dayChangePct = Zero

(***************************************************************************)
(* C11: after any number of refreshMockPrices steps from the seed every    *)
(* price of the store is strictly positive: a drift of at most -1.2%       *)
(* followed by round2 never yields a price of 0 or below.  Checked along   *)
(* the walk in which every price falls by the full 1.2% in every step,     *)
(* until round2 stops XRP at 0.41 (0.41 * 0.988 = 0.40508 rounds to 0.41). *)
(***************************************************************************)
C11_PricesPositive ==
    /\ \A s \in DOMAIN state : state[s].price > 0
    /\ \A s \in DOMAIN prices : prices[s].price > 0
    /\ \A i \in 1..Len(calls) :
          \A s \in DOMAIN calls[i].next : calls[i].next[s].price > 0

\* XRP has stopped falling: the last step left it at 0.41, where more than
\* 270 steps of -1.2% took it from 11.80
C11_Witness ==
    /\ version > 270
    /\ state["XRP"].price = 41
    /\ prices["XRP"].price = 41
    /\ calls # <<>>
    /\ calls[1].pc = "setPrices"

(***************************************************************************)
(* C12: when invocations of handleRefreshPrices overlap (a later one made  *)
(* past the disabled buttons while an earlier one is in flight), none is   *)
(* dropped or merged: every invocation gets one walk step of its own; the  *)
(* walk steps complete in invocation order (only the oldest invocation in  *)
(* flight is past its await); every walk step starts from the mapping the  *)
(* previous one stored, which the page holds by then, and hands its own    *)
(* result to setPrices; and when all are done the page holds the mapping   *)
(* stored by the last one.                                                 *)
(***************************************************************************)
Awaiting == {i \in 1..Len(calls) : calls[i].pc = "await"}

C12_OverlapInOrder ==
    /\ [](/\ invoked = version + Cardinality(Awaiting)
          /\ \A i \in 2..Len(calls) : i \in Awaiting
          /\ (calls # <<>> /\ calls[1].pc = "setPrices") => calls[1].next = state
          /\ (mounted /\ calls = <<>>) => (prices = state /\ version = invoked))
    /\ [][version' # version =>
            /\ version' = version + 1
            /\ \E draws \in [DOMAIN state -> DrawPairs] :
                  state' = Walk(prices, draws)]_vars

\* the second of two overlapping invocations has applied its mapping, after
\* the first one's finally has already set loadingPrices to false
C12_Witness ==
    /\ invoked = 2
    /\ version = 2
    /\ Len(calls) = 1
    /\ calls[1].pc = "finally"
    /\ ~loadingPrices
    /\ prices = state
    /\ prices # SeedState

(***************************************************************************)
(* C13: once the mount effect has run, whenever loadingPrices is false the *)
(* page's prices equal the store's current mapping (what getMockPrices     *)
(* returns): while the buttons are enabled the page never holds a stale    *)
(* or foreign PriceMap.                                                    *)
(***************************************************************************)
C13_ViewMatchesStore ==
    (mounted /\ ~loadingPrices) =>
        /\ prices = getMockPrices
        /\ DOMAIN prices = DOMAIN SeedState

\* two refreshes done, the buttons enabled again, the page on the second map
C13_Witness ==
    /\ mounted
    /\ ~loadingPrices
    /\ calls = <<>>
    /\ version = 2
    /\ state # SeedState
    /\ prices = state

(***************************************************************************)
(* C14: in every state the walk reaches from the seed, the day-change      *)
(* percentage handed to the display, clamp(dayChangePct, -99, 999), is a   *)
(* number within [-99, 999] and never NaN, also when the walk has taken a  *)
(* symbol's change24hPct to exactly -100.                                  *)
(***************************************************************************)
C14_ShownPctDefined ==
    rendered.evaluated =>
        LET shown == dayChangeShown(rendered)
        IN  /\ shown.k = "fin"
            /\ ~NLess(shown, Fin(ClampMin, 1))
            /\ ~NLess(Fin(ClampMax, 1), shown)
====
